---- MODULE Spec2Model ----
(***************************************************************************)
(* Retail-Analytics-Pro, static/script.js: the dashboard's module-level    *)
(* state, its event handlers and fetch continuations as a state machine,   *)
(* and its client-side aggregations as operators.                          *)
(*                                                                         *)
(* JavaScript values are modelled as strings: JsNull and JsUndefined are   *)
(* sentinels, numbers that only travel through template strings are kept   *)
(* as their decimal text.  A JavaScript object whose key order matters     *)
(* (the argument of buildQuery) is a sequence of <<key, value>> pairs in   *)
(* insertion order.                                                        *)
(***************************************************************************)
EXTENDS Integers, Sequences, FiniteSets, TLC

VARIABLES
  \* ---- module-level state, script.js:7-12
  currentFilters, currentProducts, currentTransactions, currentPage,
  editingTransactionId,
  \* ---- DOM: filter inputs
  startDate, endDate, countrySelect, segmentFilter,
  \* ---- DOM: overlay, modal, form, table, notifications
  loadingOverlay, modalActive, modalTitle, form, tableRows, pagination, alerts,
  \* ---- asynchronous operations in flight, and the REST backend's data
  ops, db,
  \* ---- the last confirm() dialog and the answer it returned
  prompt,
  \* ---- the backend's answer to the last create, update, delete or RFM
  \* ---- request that settled
  served,
  \* ---- the aggregation under evaluation (pure functions of a response)
  fn, arg, ret

dashVars == <<currentFilters, currentProducts, currentTransactions, currentPage,
              editingTransactionId, startDate, endDate, countrySelect,
              segmentFilter, loadingOverlay, modalActive, modalTitle, form,
              tableRows, pagination, alerts, ops, db, prompt,
              served>>
aggVars == <<fn, arg, ret>>
vars == <<dashVars, prompt, served, aggVars>>

JsNull == "<null>"
JsUndefined == "<undefined>"

\* ------------------------------------------------------------------------
\* Sequence helpers
\* ------------------------------------------------------------------------
Range(s) == {s[i] : i \in DOMAIN s}

\* All sequences over S of length lo..hi.
SeqsOf(S, lo, hi) == UNION {[1..n -> S] : n \in lo..hi}

Max(a, b) == IF a >= b THEN a ELSE b
Min(a, b) == IF a <= b THEN a ELSE b

\* ------------------------------------------------------------------------
\* buildQuery, script.js:15-21
\* ------------------------------------------------------------------------

\* encodeURIComponent on the strings the dashboard sends: the comma of a
\* joined country list and the space of a country name are escaped, the
\* other characters of these values (letters, digits, '-', '_') are kept.
encodeURIComponent(s) ==
  CASE s = "France,Germany" -> "France%2CGermany"
    [] s = "United Kingdom" -> "United%20Kingdom"
    [] s = "France,United Kingdom" -> "France%2CUnited%20Kingdom"
    [] OTHER -> s

\* params[k] !== undefined && params[k] !== null && params[k] !== ""
QueryKeyKept_NoEmptyCheck(v) == v # JsUndefined /\ v # JsNull
QueryKeyKept(v) == v # JsUndefined /\ v # JsNull /\ v # ""

\* .map(k => `${encodeURIComponent(k)}=${encodeURIComponent(params[k])}`)
QueryPair(kv) == encodeURIComponent(kv[1]) \o "=" \o encodeURIComponent(kv[2])

\* Array.prototype.join
RECURSIVE Join(_, _)
Join(s, sep) ==
  IF s = <<>> THEN ""
  ELSE IF Len(s) = 1 THEN s[1]
  ELSE s[1] \o sep \o Join(Tail(s), sep)

buildQuery(params) ==
  LET kept == SelectSeq(params, LAMBDA kv : QueryKeyKept(kv[2]))
      query == Join([i \in DOMAIN kept |-> QueryPair(kept[i])], "&")
  IN IF query # "" THEN "?" \o query ELSE ""

\* {...obj, key: value}: the key keeps its place when obj has it, else is added last
Spread(obj, key, value) ==
  IF \E i \in DOMAIN obj : obj[i][1] = key
  THEN [i \in DOMAIN obj |-> IF obj[i][1] = key THEN <<key, value>> ELSE obj[i]]
  ELSE Append(obj, <<key, value>>)

\* ------------------------------------------------------------------------
\* renderAssociationChart's counting, script.js:1078-1097
\* ------------------------------------------------------------------------

\* The stock codes of the model, in the order of JavaScript's default sort
\* (UTF-16 code units).
StockCodes == <<"A", "B", "C">>
CodeRank(c) == CHOOSE i \in DOMAIN StockCodes : StockCodes[i] = c

\* [item1, item2].sort().join('|')
PairKey(item1, item2) ==
  IF CodeRank(item1) <= CodeRank(item2)
  THEN item1 \o "|" \o item2
  ELSE item2 \o "|" \o item1

\* invoices[t.Invoice].push(t.StockCode): the codes of one invoice, in
\* list order, duplicates kept.
InvoiceItems(transactions, inv) ==
  LET mine == SelectSeq(transactions, LAMBDA t : t.Invoice = inv)
  IN [i \in DOMAIN mine |-> mine[i].StockCode]

InvoicesOf(transactions) == {transactions[i].Invoice : i \in DOMAIN transactions}

\* The increments one invoice makes to associations[key]: one per ordered
\* pair of positions (item1, item2) with item1 !== item2 yielding key.
InvoiceIncrements(items, key) ==
  IF Len(items) > 1
  THEN Cardinality({p \in (DOMAIN items) \X (DOMAIN items) :
                      /\ items[p[1]] # items[p[2]]
                      /\ PairKey(items[p[1]], items[p[2]]) = key})
  ELSE 0

AllPairKeys ==
  {PairKey(StockCodes[i], StockCodes[j]) :
     i \in DOMAIN StockCodes, j \in DOMAIN StockCodes}

\* associations[key] after the invoices S of the list have been visited.
RECURSIVE CountOver(_, _, _)
CountOver(transactions, S, key) ==
  IF S = {} THEN 0
  ELSE LET inv == CHOOSE y \in S : TRUE
       IN InvoiceIncrements(InvoiceItems(transactions, inv), key)
            + CountOver(transactions, S \ {inv}, key)

\* associations: key -> count; a key never incremented is absent (count 0).
Associations(transactions) ==
  [key \in AllPairKeys |->
     CountOver(transactions, InvoicesOf(transactions), key)]

\* ------------------------------------------------------------------------
\* renderForecastChart's projection, script.js:1014-1036
\* ------------------------------------------------------------------------

\* A quotient a / b of integers is kept exact as <<a, b>>, b > 0.
Quot(a, b) == <<a, b>>
QuotEq(p, q) == p[1] * q[2] = q[1] * p[2]

\* data.slice(-3)
SliceLast(data, n) ==
  IF Len(data) <= n THEN data ELSE SubSeq(data, Len(data) - n + 1, Len(data))

\* (lastThree[lastThree.length-1].Revenue - lastThree[0].Revenue) / lastThree.length
AvgGrowth(lastThree) ==
  IF Len(lastThree) >= 2
  THEN Quot(lastThree[Len(lastThree)].Revenue - lastThree[1].Revenue,
            Len(lastThree))
  ELSE Quot(0, 1)

ForecastHorizon == 3

\* "not enough" when data.length < 3, else the three projected points.
\* year_month is a month count (12 * year + month); the host's time zone
\* is taken to be UTC, where setMonth(getMonth() + i) adds i months.
Forecast(data) ==
  IF Len(data) < 3 THEN "not enough"
  ELSE LET lastThree == SliceLast(data, 3)
           avgGrowth == AvgGrowth(lastThree)
           lastMonth == data[Len(data)]
       IN [i \in 1..ForecastHorizon |->
             [year_month |-> lastMonth.year_month + i,
              Revenue |-> Quot(Max(0, lastMonth.Revenue * avgGrowth[2]
                                          + avgGrowth[1] * i),
                               avgGrowth[2])]]

\* ------------------------------------------------------------------------
\* The REST backend (environment): transaction records and its responses
\* ------------------------------------------------------------------------

\* Number of transactions the backend holds at page load.
DbSize == 52
\* Transactions a behaviour may add through POST /transactions.
MaxCreates == 1
MaxId == DbSize + MaxCreates

\* The record of transaction i.  Transaction 2 lacks InvoiceDate and
\* Description and has Quantity 0; transaction 3 carries an InvoiceDate
\* that Date cannot parse.  A number is its decimal text; a missing number
\* is "0" (every use in script.js is `x || default`).
Transactions ==
  [i \in 1..MaxId |->
    [_id |-> "t" \o ToString(i),
     Invoice |-> "INV" \o ToString(i),
     StockCode |-> StockCodes[(i % Len(StockCodes)) + 1],
     Description |-> IF i = 2 THEN JsNull ELSE "LAMP " \o ToString(i),
     Quantity |-> IF i = 2 THEN "0" ELSE "6",
     Price |-> "2.5",
     CustomerID |-> "C" \o ToString(i % 3),
     Country |-> IF i <= 2 THEN "France" ELSE "United Kingdom",
     InvoiceDate |-> CASE i = 1 -> "2011-01-05T09:30:00Z"
                       [] i = 2 -> JsNull
                       [] i = 3 -> "not a date"
                       [] OTHER -> "2011-03-01T10:00:00Z"]]

Txn(i) == Transactions[i]
TxnId(i) == Transactions[i]._id
IsTxnId(id) == \E i \in 1..MaxId : TxnId(i) = id
TxnIndex(id) == CHOOSE i \in 1..MaxId : TxnId(i) = id

\* params[key], undefined when the object has no such key
Get(obj, key) ==
  IF \E i \in DOMAIN obj : obj[i][1] = key
  THEN obj[CHOOSE i \in DOMAIN obj : obj[i][1] = key][2]
  ELSE JsUndefined

Absent(v) == v \in {JsUndefined, JsNull, ""}

\* Which records a filtered GET selects: by country list, and by start
\* date (only transaction 1 is dated before "2011-02-01").
CountryListHas(list, c) ==
  CASE list = "France" -> c = "France"
    [] list = "United Kingdom" -> c = "United Kingdom"
    [] OTHER -> TRUE
Selected(i, params) ==
  /\ Absent(Get(params, "countries"))
       \/ CountryListHas(Get(params, "countries"), Txn(i).Country)
  /\ Absent(Get(params, "start_date")) \/ i # 1

\* GET /transactions: the ids of the selected records, in id order.
ServerTransactions(params, data) ==
  LET all == [i \in 1..MaxId |-> i]
      sel == SelectSeq(all, LAMBDA i : i \in data /\ Selected(i, params))
  IN [k \in DOMAIN sel |-> TxnId(sel[k])]

\* GET /top_products: one rollup row per stock code sold.
ServerProducts(params, data) ==
  LET sold(c) == Cardinality({i \in data : Selected(i, params) /\ Txn(i).StockCode = c})
      codes == SelectSeq(StockCodes, LAMBDA c : sold(c) > 0)
  IN [k \in DOMAIN codes |-> [StockCode |-> codes[k], Quantity |-> sold(codes[k])]]

\* ------------------------------------------------------------------------
\* Filters, script.js:120-146
\* ------------------------------------------------------------------------

\* x || null
OrNull(x) == IF x = "" THEN JsNull ELSE x

\* getFilters(): start, end and the selected countries; the segment input
\* is not read.
getFilters ==
  << <<"start_date", OrNull(startDate)>>,
     <<"end_date", OrNull(endDate)>>,
     <<"countries", IF Len(countrySelect) > 0 THEN Join(countrySelect, ",") ELSE JsNull>> >>

\* ------------------------------------------------------------------------
\* The nine fetches of refreshAll, script.js:229-239, and their URLs
\* ------------------------------------------------------------------------
RefreshFetches ==
  <<"fetchSummary", "populateCountries", "fetchRevenueByCountry",
    "fetchTopProducts", "fetchMonthlyTrend", "fetchDailyPattern",
    "fetchCategoryDistribution", "fetchProductsTable", "fetchTransactionsList">>

FetchUrl(name, filters) ==
  CASE name = "fetchSummary" -> "/summary" \o buildQuery(filters)
    [] name = "populateCountries" -> "/countries"
    [] name = "fetchRevenueByCountry" -> "/revenue_by_country" \o buildQuery(filters)
    [] name = "fetchTopProducts" ->
         "/top_products" \o buildQuery(Spread(filters, "limit", "10"))
    [] name = "fetchMonthlyTrend" -> "/monthly_trend" \o buildQuery(filters)
    [] name = "fetchDailyPattern" -> "/transactions" \o buildQuery(filters)
    [] name = "fetchCategoryDistribution" -> "/transactions" \o buildQuery(filters)
    [] name = "fetchProductsTable" ->
         "/top_products" \o buildQuery(Spread(filters, "limit", "200"))
    [] name = "fetchTransactionsList" -> "/transactions" \o buildQuery(filters)

\* The fetches whose URL carries the filters.
FilteredFetches == Range(RefreshFetches) \ {"populateCountries"}

\* ------------------------------------------------------------------------
\* Table rendering, script.js:712-759
\* ------------------------------------------------------------------------
pageSize == 50

\* Math.ceil(total / pageSize)
CeilDiv(total, size) == (total + size - 1) \div size

\* Array.prototype.slice(start, end), 0-based, end exclusive
Slice(s, start, end) ==
  LET lo == Min(start, Len(s))
      hi == Min(end, Len(s))
  IN IF hi <= lo THEN <<>> ELSE SubSeq(s, lo + 1, hi)

\* renderTransactionsTable(transactions) with the current page: the body
\* rows, and the pagination bar (left as it was for an empty list).
RenderedTable_FirstPageOnly(transactions, page) ==
  IF Len(transactions) = 0
  THEN [rows |-> <<>>, nodata |-> TRUE]
  ELSE [rows |-> Slice(transactions, 0, pageSize), nodata |-> FALSE]
RenderedTable(transactions, page) ==
  IF Len(transactions) = 0
  THEN [rows |-> <<>>, nodata |-> TRUE]
  ELSE [rows |-> Slice(transactions, (page - 1) * pageSize,
                       (page - 1) * pageSize + pageSize),
        nodata |-> FALSE]
RenderedPagination(transactions, page, old) ==
  IF Len(transactions) = 0 THEN old
  ELSE [page |-> page, totalPages |-> CeilDiv(Len(transactions), pageSize)]

\* ------------------------------------------------------------------------
\* Operations in flight
\* ------------------------------------------------------------------------

\* Asynchronous top-level operations that may be in flight at once.
MaxInFlight == 2
Slots == 1..MaxInFlight

Idle == [kind |-> "idle"]

\* An invocation of refreshAll awaiting Promise.all: the fetches not yet
\* settled, whether one of them failed (and logged it), the
\* filters its URLs were built from, and the handler that called it.
RefreshOp(filters, caller) ==
  [kind |-> "refreshAll", pending |-> Range(RefreshFetches), failed |-> FALSE,
   filters |-> filters, caller |-> caller]

\* The page-load handler awaiting its first populateCountries().
LoadOp == [kind |-> "DOMContentLoaded"]

\* A create/update, delete or RFM request awaiting its response.
RequestOp(kind, method, url) == [kind |-> kind, method |-> method, url |-> url]

IsIdle(s) == ops[s].kind = "idle"
IsRefresh(s) == ops[s].kind = "refreshAll"
FreeSlots == {s \in Slots : IsIdle(s)}
\* The slot a new operation takes.
NewSlot == CHOOSE s \in FreeSlots : \A t \in FreeSlots : s <= t

\* No create, update, delete or RFM request has settled yet.
NoResponse == [status |-> "none", body |-> "none"]

\* No confirm() dialog has been shown yet.
NoPrompt == [about |-> "", answer |-> FALSE]

NoAlert == [type |-> "none", message |-> ""]
Alert(type, message) == [type |-> type, message |-> message]

EmptyForm ==
  [formInvoice |-> "", formStockCode |-> "", formDescription |-> "",
   formQuantity |-> "", formPrice |-> "", formCustomerID |-> "",
   formCountry |-> "", formInvoiceDate |-> ""]

\* script.js:7-12 and the page as served, with the DOMContentLoaded handler
\* (script.js:149-154) at its first await.
DashInit ==
  /\ currentFilters = <<>>
  /\ currentProducts = <<>>
  /\ currentTransactions = <<>>
  /\ currentPage = 1
  /\ editingTransactionId = JsNull
  /\ startDate = ""
  /\ endDate = ""
  /\ countrySelect = <<>>
  /\ segmentFilter = ""
  /\ loadingOverlay = FALSE
  /\ modalActive = FALSE
  /\ modalTitle = ""
  /\ form = EmptyForm
  /\ tableRows = [rows |-> <<>>, nodata |-> FALSE]
  /\ pagination = [page |-> 0, totalPages |-> 0]
  /\ alerts = NoAlert
  /\ ops = [s \in Slots |-> IF s = 1 THEN LoadOp ELSE Idle]
  /\ db = 1..DbSize
  /\ prompt = NoPrompt
  /\ served = NoResponse

\* No aggregation is under evaluation.
AggIdle ==
  /\ fn = "none"
  /\ arg = <<>>
  /\ ret = [done |-> FALSE]

\* ------------------------------------------------------------------------
\* Filter inputs (user edits, setDatePreset), script.js:72-118
\* ------------------------------------------------------------------------
StartDates == {"", "2011-02-01"}
EndDates == {"", "2011-12-31"}
Segments == {"", "VIP"}

SetStartDate(v) ==
  /\ startDate # v
  /\ startDate' = v
  /\ UNCHANGED <<currentFilters, currentProducts, currentTransactions, currentPage,
                 editingTransactionId, endDate, countrySelect, segmentFilter,
                 loadingOverlay, modalActive, modalTitle, form, tableRows,
                 pagination, alerts, ops, db, prompt, served, aggVars>>

SetEndDate(v) ==
  /\ endDate # v
  /\ endDate' = v
  /\ UNCHANGED <<currentFilters, currentProducts, currentTransactions, currentPage,
                 editingTransactionId, startDate, countrySelect, segmentFilter,
                 loadingOverlay, modalActive, modalTitle, form, tableRows,
                 pagination, alerts, ops, db, prompt, served, aggVars>>

SelectCountries(sel) ==
  /\ countrySelect # sel
  /\ countrySelect' = sel
  /\ UNCHANGED <<currentFilters, currentProducts, currentTransactions, currentPage,
                 editingTransactionId, startDate, endDate, segmentFilter,
                 loadingOverlay, modalActive, modalTitle, form, tableRows,
                 pagination, alerts, ops, db, prompt, served, aggVars>>

SetSegment(v) ==
  /\ segmentFilter # v
  /\ segmentFilter' = v
  /\ UNCHANGED <<currentFilters, currentProducts, currentTransactions, currentPage,
                 editingTransactionId, startDate, endDate, countrySelect,
                 loadingOverlay, modalActive, modalTitle, form, tableRows,
                 pagination, alerts, ops, db, prompt, served, aggVars>>

\* ------------------------------------------------------------------------
\* refreshAll and its callers, script.js:133-160, 226-246
\* ------------------------------------------------------------------------

\* refreshAll() up to its await: showLoading(), then the nine fetch
\* functions run to their own first await, each URL built from the
\* filters current at this moment.
StartRefresh_AbortEarlier(s, filters, caller) ==
  /\ loadingOverlay' = TRUE
  /\ ops' = [t \in Slots |-> IF t = s THEN RefreshOp(filters, caller) ELSE Idle]
StartRefresh(s, filters, caller) ==
  /\ loadingOverlay' = TRUE
  /\ ops' = [ops EXCEPT ![s] = RefreshOp(filters, caller)]

\* applyFilters()
ApplyFilters ==
  /\ FreeSlots # {}
  /\ currentFilters' = getFilters
  /\ StartRefresh(NewSlot, getFilters, "applyFilters")
  /\ UNCHANGED <<currentProducts, currentTransactions, currentPage,
                 editingTransactionId, startDate, endDate, countrySelect,
                 segmentFilter, modalActive, modalTitle, form, tableRows,
                 pagination, alerts, db, prompt, served, aggVars>>

\* clearFilters()
ClearFilters ==
  /\ FreeSlots # {}
  /\ startDate' = ""
  /\ endDate' = ""
  /\ countrySelect' = <<>>
  /\ segmentFilter' = ""
  /\ currentFilters' = <<>>
  /\ StartRefresh(NewSlot, <<>>, "clearFilters")
  /\ UNCHANGED <<currentProducts, currentTransactions, currentPage,
                 editingTransactionId, modalActive, modalTitle, form, tableRows,
                 pagination, alerts, db, prompt, served, aggVars>>

\* click on refreshBtn
RefreshClick ==
  /\ FreeSlots # {}
  /\ StartRefresh(NewSlot, currentFilters, "refreshBtn")
  /\ UNCHANGED <<currentFilters, currentProducts, currentTransactions, currentPage,
                 editingTransactionId, startDate, endDate, countrySelect,
                 segmentFilter, modalActive, modalTitle, form, tableRows,
                 pagination, alerts, db, prompt, served, aggVars>>

\* How a GET may end: the response parsed, fetch() rejected, or res.json()
\* rejected.  (Nothing runs between a fetch function's two awaits, so the
\* two are one step.)
GetOutcomes == {"ok", "network error", "unparsable"}

\* The page-load handler's `await populateCountries()` settles (the
\* function catches its own failures) and `await refreshAll()` starts.
PageLoaded(s, outcome) ==
  /\ ops[s].kind = "DOMContentLoaded"
  /\ countrySelect' = IF outcome = "ok" THEN <<>> ELSE countrySelect
  /\ StartRefresh(s, currentFilters, "DOMContentLoaded")
  /\ UNCHANGED <<currentFilters, currentProducts, currentTransactions, currentPage,
                 editingTransactionId, startDate, endDate, segmentFilter,
                 modalActive, modalTitle, form, tableRows, pagination, alerts,
                 db, prompt, served, aggVars>>

\* The state of the promise a fetch function returns once its request
\* settled with `outcome`: each of the nine wraps its body in try/catch and
\* only logs, so the promise is fulfilled either way.
FetchPromise_Rethrow(outcome) == IF outcome = "ok" THEN "fulfilled" ELSE "rejected"
FetchPromise(outcome) == "fulfilled"

\* Promise.all([...]) settles: rejected as soon as one promise rejects,
\* fulfilled once none is pending.
PromiseAll(pendingAfter, promise) ==
  IF promise = "rejected" THEN "rejected"
  ELSE IF pendingAfter = {} THEN "fulfilled" ELSE "pending"

\* The notification refreshAll shows when its Promise.all has settled.
RefreshAlert(all) ==
  IF all = "fulfilled" THEN Alert("success", "Data refreshed successfully!")
  ELSE Alert("error", "Error refreshing data")

\* One of a refreshAll's nine requests settles and its fetch function runs
\* to its end; when that settles Promise.all, refreshAll runs to its end in
\* the same turn (showAlert, finally hideLoading), and so does the async
\* function awaiting it (its finally: hideLoading).
SettleFetch(s, name, outcome) ==
  /\ IsRefresh(s)
  /\ name \in ops[s].pending
  /\ LET op == ops[s]
         good == outcome = "ok"
         list == ServerTransactions(op.filters, db)
         pendingAfter == op.pending \ {name}
         all == PromiseAll(pendingAfter, FetchPromise(outcome))
     IN /\ currentTransactions' =
             IF good /\ name = "fetchTransactionsList" THEN list
             ELSE currentTransactions
        /\ tableRows' =
             IF good /\ name = "fetchTransactionsList"
             THEN RenderedTable(list, currentPage) ELSE tableRows
        /\ pagination' =
             IF good /\ name = "fetchTransactionsList"
             THEN RenderedPagination(list, currentPage, pagination) ELSE pagination
        /\ currentProducts' =
             IF good /\ name = "fetchProductsTable"
             THEN ServerProducts(Spread(op.filters, "limit", "200"), db)
             ELSE currentProducts
        /\ countrySelect' =
             IF good /\ name = "populateCountries" THEN <<>> ELSE countrySelect
        /\ IF all = "pending"
           THEN /\ ops' = [ops EXCEPT ![s].pending = pendingAfter,
                                      ![s].failed = op.failed \/ ~good]
                /\ UNCHANGED <<alerts, loadingOverlay>>
           ELSE /\ ops' = [ops EXCEPT ![s] = Idle]
                /\ alerts' = RefreshAlert(all)
                /\ loadingOverlay' = FALSE
  /\ UNCHANGED <<currentFilters, currentPage, editingTransactionId, startDate,
                 endDate, segmentFilter, modalActive, modalTitle, form, db,
                 prompt, served, aggVars>>

\* A refreshAll's requests settling in the order of its array: the
\* continuations of different fetches of one run write different variables
\* (the charts, the country select, currentProducts, the transaction list
\* and table), so this order stands for every order within the run.  The
\* requests of different runs still settle in any order.
InArrayOrder(op) ==
  LET left == SelectSeq(RefreshFetches, LAMBDA n : n \in op.pending)
  IN IF left = <<>> THEN {} ELSE {Head(left)}

\* No asynchronous operation is in flight.
Quiet == \A s \in Slots : IsIdle(s)

\* ------------------------------------------------------------------------
\* Pagination, script.js:761-766
\* ------------------------------------------------------------------------

\* changePage(page)
ChangePage(page) ==
  /\ ~(page < 1 \/ page > CeilDiv(Len(currentTransactions), pageSize))
  /\ currentPage' = page
  /\ tableRows' = RenderedTable(currentTransactions, page)
  /\ pagination' = RenderedPagination(currentTransactions, page, pagination)
  /\ UNCHANGED <<currentFilters, currentProducts, currentTransactions,
                 editingTransactionId, startDate, endDate, countrySelect,
                 segmentFilter, loadingOverlay, modalActive, modalTitle, form,
                 alerts, ops, db, prompt, served, aggVars>>

\* The pages the Previous and Next buttons of the rendered bar ask for
\* (a disabled button asks for nothing).
PageButtons ==
  IF pagination.page = 0 THEN {}
  ELSE (IF pagination.page = 1 THEN {} ELSE {pagination.page - 1})
         \cup (IF pagination.page = pagination.totalPages THEN {}
               ELSE {pagination.page + 1})

\* ------------------------------------------------------------------------
\* The transaction modal, script.js:768-801
\* ------------------------------------------------------------------------

\* The MouseEvent a click listener is called with, and its text in a
\* template string.
ClickEvent == "<MouseEvent>"
ToText(v) == IF v = ClickEvent THEN "[object MouseEvent]" ELSE v

\* JavaScript truthiness of the values the modal handles (strings, null,
\* undefined, event objects) and of numbers kept as decimal text.
Truthy(v) == v \notin {JsNull, JsUndefined, ""}
TruthyNumber(v) == v \notin {JsNull, JsUndefined, "0", "NaN"}

\* x || d
Or(x, d) == IF Truthy(x) THEN x ELSE d
NumberOr(x, d) == IF TruthyNumber(x) THEN x ELSE d

\* new Date(s).toISOString().slice(0, 16); toISOString throws a RangeError
\* on an invalid date.
DateParses(s) == s # "not a date"
ToDatetimeLocal(s) ==
  CASE s = "2011-01-05T09:30:00Z" -> "2011-01-05T09:30"
    [] s = "2011-03-01T10:00:00Z" -> "2011-03-01T10:00"
    [] OTHER -> s

\* currentTransactions.find(t => t._id === id): the record's index in the
\* list, 0 when there is none.
FindTransaction(id) ==
  IF \E k \in DOMAIN currentTransactions : currentTransactions[k] = id
  THEN TxnIndex(id) ELSE 0

\* The form after the edit branch has copied record t into it: seven
\* fields always, the date only when the record has one.
Prefilled(t) ==
  [formInvoice |-> Or(t.Invoice, ""),
   formStockCode |-> Or(t.StockCode, ""),
   formDescription |-> Or(t.Description, ""),
   formQuantity |-> NumberOr(t.Quantity, "1"),
   formPrice |-> NumberOr(t.Price, "0"),
   formCustomerID |-> Or(t.CustomerID, ""),
   formCountry |-> Or(t.Country, ""),
   formInvoiceDate |-> IF Truthy(t.InvoiceDate)
                       THEN ToDatetimeLocal(t.InvoiceDate)
                       ELSE form.formInvoiceDate]

\* openTransactionModal(id)
OpenTransactionModal(id) ==
  /\ editingTransactionId' = id
  /\ IF Truthy(id)
     THEN /\ modalTitle' = "Edit Transaction"
          /\ LET found == FindTransaction(id)
             IN IF found = 0
                THEN form' = form /\ modalActive' = TRUE
                ELSE IF Truthy(Txn(found).InvoiceDate)
                        /\ ~DateParses(Txn(found).InvoiceDate)
                     THEN \* toISOString throws: the date field and the
                          \* modal's class are not reached
                          /\ form' = [Prefilled(Txn(found)) EXCEPT
                                        !.formInvoiceDate = form.formInvoiceDate]
                          /\ modalActive' = modalActive
                     ELSE /\ form' = Prefilled(Txn(found))
                          /\ modalActive' = TRUE
     ELSE /\ modalTitle' = "Add New Transaction"
          /\ form' = EmptyForm
          /\ modalActive' = TRUE
  /\ UNCHANGED <<currentFilters, currentProducts, currentTransactions, currentPage,
                 startDate, endDate, countrySelect, segmentFilter, loadingOverlay,
                 tableRows, pagination, alerts, ops, db, prompt, served, aggVars>>

\* click on addTransactionBtn: the listener is openTransactionModal itself,
\* called with the event
AddTransactionClick == OpenTransactionModal(ClickEvent)

\* editTransaction(id), from the edit button of a rendered row
EditTransaction(id) ==
  /\ id \in Range(tableRows.rows)
  /\ OpenTransactionModal(id)

\* closeTransactionModal(), from the close and cancel buttons
CloseTransactionModal ==
  /\ modalActive
  /\ modalActive' = FALSE
  /\ editingTransactionId' = JsNull
  /\ UNCHANGED <<currentFilters, currentProducts, currentTransactions, currentPage,
                 startDate, endDate, countrySelect, segmentFilter, loadingOverlay,
                 modalTitle, form, tableRows, pagination, alerts, ops, db, prompt, served, aggVars>>

\* ------------------------------------------------------------------------
\* Create, update, delete, script.js:803-874
\* ------------------------------------------------------------------------

\* parseInt / parseFloat of a form field holding decimal text, as
\* JSON.stringify sends it: NaN (an empty field) goes as null.
ParseNumber(text) == IF text = "" THEN JsNull ELSE text

\* new Date().toISOString() at the time of the submit
Now == "2011-12-09T12:00:00.000Z"

Payload ==
  [Invoice |-> form.formInvoice,
   StockCode |-> form.formStockCode,
   Description |-> form.formDescription,
   Quantity |-> ParseNumber(form.formQuantity),
   Price |-> ParseNumber(form.formPrice),
   CustomerID |-> form.formCustomerID,
   Country |-> form.formCountry,
   InvoiceDate |-> Or(form.formInvoiceDate, Now)]

\* The request handleTransactionSubmit sends for a value of
\* editingTransactionId.
SubmitRequest_AlwaysCreate(editing) ==
  [kind |-> "handleTransactionSubmit", method |-> "POST",
   url |-> "/transactions", body |-> Payload]
SubmitRequest(editing) ==
  IF Truthy(editing)
  THEN [kind |-> "handleTransactionSubmit", method |-> "PUT",
        url |-> "/transactions/" \o ToText(editing), body |-> Payload]
  ELSE [kind |-> "handleTransactionSubmit", method |-> "POST",
        url |-> "/transactions", body |-> Payload]

\* handleTransactionSubmit(e) up to its await
HandleTransactionSubmit ==
  /\ FreeSlots # {}
  /\ loadingOverlay' = TRUE
  /\ ops' = [ops EXCEPT ![NewSlot] = SubmitRequest(editingTransactionId)]
  /\ UNCHANGED <<currentFilters, currentProducts, currentTransactions, currentPage,
                 editingTransactionId, startDate, endDate, countrySelect,
                 segmentFilter, modalActive, modalTitle, form, tableRows,
                 pagination, alerts, db, prompt, served, aggVars>>

\* How a create, update, delete or RFM request may end: a 2xx or a non-2xx
\* response with a JSON body, fetch() rejected, or res.json() rejected on
\* the body of a non-2xx or of a 2xx response.
RequestOutcomes ==
  {"ok", "non-2xx", "network error", "unparsable", "ok unparsable"}

\* The response behind an outcome: its status class and whether its body
\* is JSON.
Response(outcome) ==
  CASE outcome = "ok" -> [status |-> "2xx", body |-> "json"]
    [] outcome = "non-2xx" -> [status |-> "non-2xx", body |-> "json"]
    [] outcome = "unparsable" -> [status |-> "non-2xx", body |-> "unparsable"]
    [] outcome = "ok unparsable" -> [status |-> "2xx", body |-> "unparsable"]
    [] outcome = "network error" -> NoResponse

\* The backend has carried out the request it answers with 2xx.
Applied(outcome) == Response(outcome).status = "2xx"

FailureAlert(prefix, outcome) ==
  IF outcome = "non-2xx" THEN Alert("error", prefix)
  ELSE Alert("error", "Network error")

\* The id POST /transactions gives the new record.
CreatedIds == (DbSize + 1)..MaxId
NextCreated == CHOOSE i \in CreatedIds \ db : \A j \in CreatedIds \ db : i <= j

\* The response to the create/update arrives and handleTransactionSubmit
\* runs on: on 2xx showAlert, closeTransactionModal() and refreshAll() up to
\* its await; otherwise showAlert and the finally's hideLoading().
SettleSubmit(s, outcome) ==
  /\ ops[s].kind = "handleTransactionSubmit"
  /\ Applied(outcome) /\ ops[s].method = "POST" => CreatedIds \ db # {}
  /\ served' = Response(outcome)
  /\ db' = IF Applied(outcome) /\ ops[s].method = "POST"
           THEN db \cup {NextCreated} ELSE db
  /\ IF outcome = "ok"
     THEN /\ alerts' = Alert("success",
                             IF Truthy(editingTransactionId)
                             THEN "Transaction updated successfully!"
                             ELSE "Transaction created successfully!")
          /\ modalActive' = FALSE
          /\ editingTransactionId' = JsNull
          /\ StartRefresh(s, currentFilters, "handleTransactionSubmit")
     ELSE /\ alerts' = FailureAlert("Error", outcome)
          /\ loadingOverlay' = FALSE
          /\ ops' = [ops EXCEPT ![s] = Idle]
          /\ UNCHANGED <<modalActive, editingTransactionId>>
  /\ UNCHANGED <<currentFilters, currentProducts, currentTransactions, currentPage,
                 startDate, endDate, countrySelect, segmentFilter, modalTitle,
                 form, tableRows, pagination, prompt, aggVars>>

\* if (!confirm(...)) return: whether deleteTransaction goes on after the
\* dialog returned `confirmed`
DeleteProceeds_Unasked(confirmed) == TRUE
DeleteProceeds(confirmed) == confirmed

\* deleteTransaction(id), from the delete button of a rendered row, with
\* the answer given to confirm()
DeleteTransaction(id, confirmed) ==
  /\ id \in Range(tableRows.rows)
  /\ prompt' = [about |-> id, answer |-> confirmed]
  /\ IF DeleteProceeds(confirmed)
     THEN /\ FreeSlots # {}
          /\ loadingOverlay' = TRUE
          /\ ops' = [ops EXCEPT ![NewSlot] =
                       RequestOp("deleteTransaction", "DELETE",
                                 "/transactions/" \o id)]
     ELSE UNCHANGED <<loadingOverlay, ops>>
  /\ UNCHANGED <<currentFilters, currentProducts, currentTransactions, currentPage,
                 editingTransactionId, startDate, endDate, countrySelect,
                 segmentFilter, modalActive, modalTitle, form, tableRows,
                 pagination, alerts, db, served, aggVars>>

\* The record a DELETE url names.
DeletedBy(url) == {i \in 1..MaxId : url = "/transactions/" \o TxnId(i)}

\* The response to the DELETE arrives and deleteTransaction runs on.
SettleDelete(s, outcome) ==
  /\ ops[s].kind = "deleteTransaction"
  /\ served' = Response(outcome)
  /\ db' = IF Applied(outcome) THEN db \ DeletedBy(ops[s].url) ELSE db
  /\ IF outcome = "ok"
     THEN /\ alerts' = Alert("success", "Deleted")
          /\ StartRefresh(s, currentFilters, "deleteTransaction")
     ELSE /\ alerts' = FailureAlert("Delete error", outcome)
          /\ loadingOverlay' = FALSE
          /\ ops' = [ops EXCEPT ![s] = Idle]
  /\ UNCHANGED <<currentFilters, currentProducts, currentTransactions, currentPage,
                 editingTransactionId, startDate, endDate, countrySelect,
                 segmentFilter, modalActive, modalTitle, form, tableRows,
                 pagination, prompt, aggVars>>

\* --- fetchRFM, script.js:177-180, 583-601 ---

\* Values of the rfmClusters input.
ClusterCounts == {"4"}

\* click on computeRfmBtn: fetchRFM(parseInt(k)) up to its await
ComputeRfmClick(k) ==
  /\ FreeSlots # {}
  /\ loadingOverlay' = TRUE
  /\ ops' = [ops EXCEPT ![NewSlot] =
               RequestOp("fetchRFM", "GET", "/rfm" \o buildQuery(<< <<"k", k>> >>))]
  /\ UNCHANGED <<currentFilters, currentProducts, currentTransactions, currentPage,
                 editingTransactionId, startDate, endDate, countrySelect,
                 segmentFilter, modalActive, modalTitle, form, tableRows,
                 pagination, alerts, db, prompt, served, aggVars>>

\* Whether fetchRFM's `finally { hideLoading(); }` runs after `outcome`.
RfmHides_OnSuccessOnly(outcome) == outcome = "ok"
RfmHides(outcome) == TRUE

\* The response to GET /rfm arrives and fetchRFM runs to its end.
SettleRfm(s, outcome) ==
  /\ ops[s].kind = "fetchRFM"
  /\ served' = Response(outcome)
  /\ alerts' = IF outcome = "ok"
               THEN Alert("success", "RFM analysis completed")
               ELSE FailureAlert("RFM error", outcome)
  /\ loadingOverlay' = IF RfmHides(outcome) THEN FALSE ELSE loadingOverlay
  /\ ops' = [ops EXCEPT ![s] = Idle]
  /\ UNCHANGED <<currentFilters, currentProducts, currentTransactions, currentPage,
                 editingTransactionId, startDate, endDate, countrySelect,
                 segmentFilter, modalActive, modalTitle, form, tableRows,
                 pagination, db, prompt, aggVars>>

\* ------------------------------------------------------------------------
\* Specifications
\* ------------------------------------------------------------------------

Init == DashInit /\ AggIdle

\* One refreshAll at a time, its nine requests settling in any order and
\* with any outcome.
RefreshNext ==
  \/ Quiet /\ RefreshClick
  \/ \E s \in Slots, outcome \in GetOutcomes : PageLoaded(s, outcome)
  \/ \E s \in Slots, name \in Range(RefreshFetches), outcome \in GetOutcomes :
       SettleFetch(s, name, outcome)

SpecRefresh == Init /\ [][RefreshNext]_vars

\* Overlapping refreshes: Apply Filters with one country selection or
\* another while the requests of earlier refreshes are still in flight.
RaceCountries == {<<>>, <<"France">>}
RaceNext ==
  \/ \E sel \in RaceCountries : SelectCountries(sel)
  \/ ApplyFilters
  \/ \E s \in Slots : PageLoaded(s, "ok")
  \/ \E s \in Slots : /\ IsRefresh(s)
                      /\ \E name \in InArrayOrder(ops[s]) : SettleFetch(s, name, "ok")

SpecRace == Init /\ [][RaceNext]_vars

\* Paging: one operation at a time; the user filters by country, pages, and
\* deletes rows of the page shown.
UserIds == {TxnId(1), TxnId(2), TxnId(3), TxnId(DbSize)}
PagingNext ==
  \/ \E sel \in RaceCountries : SelectCountries(sel)
  \/ Quiet /\ ApplyFilters
  \/ \E s \in Slots : PageLoaded(s, "ok")
  \/ \E s \in Slots : /\ IsRefresh(s)
                      /\ \E name \in InArrayOrder(ops[s]) : SettleFetch(s, name, "ok")
  \/ \E page \in PageButtons : ChangePage(page)
  \/ \E id \in {TxnId(1), TxnId(2), TxnId(DbSize)}, confirmed \in BOOLEAN :
       Quiet /\ DeleteTransaction(id, confirmed)
  \/ \E s \in Slots, outcome \in {"ok", "non-2xx"} : SettleDelete(s, outcome)

SpecPaging == Init /\ [][PagingNext]_vars

\* The filter panel: the user sets the four inputs and applies or clears
\* them, one refresh at a time.
FiltersNext ==
  \/ \E v \in StartDates : SetStartDate(v)
  \/ \E v \in EndDates : SetEndDate(v)
  \/ \E sel \in RaceCountries : SelectCountries(sel)
  \/ \E v \in Segments : SetSegment(v)
  \/ Quiet /\ ApplyFilters
  \/ Quiet /\ ClearFilters
  \/ \E s \in Slots : PageLoaded(s, "ok")
  \/ \E s \in Slots : /\ IsRefresh(s)
                      /\ \E name \in InArrayOrder(ops[s]) : SettleFetch(s, name, "ok")

SpecFilters == Init /\ [][FiltersNext]_vars

\* The transaction modal: the user opens it to add or to edit a row of the
\* page shown, closes it, and submits when nothing else is in flight.  The
\* submit handler is registered on the form whatever the modal's state.
CrudNext ==
  \/ \E s \in Slots : PageLoaded(s, "ok")
  \/ \E s \in Slots : /\ IsRefresh(s)
                      /\ \E name \in InArrayOrder(ops[s]) : SettleFetch(s, name, "ok")
  \/ ~modalActive /\ AddTransactionClick
  \/ \E id \in UserIds : ~modalActive /\ EditTransaction(id)
  \/ CloseTransactionModal
  \/ Quiet /\ HandleTransactionSubmit
  \/ \E s \in Slots, outcome \in RequestOutcomes : SettleSubmit(s, outcome)

SpecCrud == Init /\ [][CrudNext]_vars

\* The loading overlay: a refresh, a submit or a delete started when
\* nothing is in flight, and RFM runs started at any time, also while
\* another operation is in flight; every request settles with any outcome.
OverlayNext ==
  \/ \E s \in Slots, outcome \in GetOutcomes : PageLoaded(s, outcome)
  \/ Quiet /\ RefreshClick
  \/ \E k \in ClusterCounts : ComputeRfmClick(k)
  \/ Quiet /\ HandleTransactionSubmit
  \/ \E confirmed \in BOOLEAN : Quiet /\ DeleteTransaction(TxnId(2), confirmed)
  \/ \E s \in Slots, outcome \in {"ok", "network error"} :
       /\ IsRefresh(s)
       /\ \E name \in InArrayOrder(ops[s]) : SettleFetch(s, name, outcome)
  \/ \E s \in Slots, outcome \in RequestOutcomes : SettleRfm(s, outcome)
  \/ \E s \in Slots, outcome \in RequestOutcomes : SettleSubmit(s, outcome)
  \/ \E s \in Slots, outcome \in RequestOutcomes : SettleDelete(s, outcome)

SpecOverlay == Init /\ [][OverlayNext]_vars

\* One operation at a time, each of the four kinds; the create, update,
\* delete and RFM requests settle with any outcome, and so does the
\* products request of a refresh (every fetch function of refreshAll
\* handles a failure the same way).  Every request issued eventually
\* settles: weak fairness of the steps that settle it.
SettleOne(s) ==
  \/ \E outcome \in GetOutcomes : PageLoaded(s, outcome)
  \/ /\ IsRefresh(s)
     /\ \E name \in InArrayOrder(ops[s]) :
          \E outcome \in (IF name = "fetchProductsTable" THEN GetOutcomes ELSE {"ok"}) :
            SettleFetch(s, name, outcome)
  \/ \E outcome \in RequestOutcomes : SettleRfm(s, outcome)
  \/ \E outcome \in RequestOutcomes : SettleSubmit(s, outcome)
  \/ \E outcome \in RequestOutcomes : SettleDelete(s, outcome)

LiveNext ==
  \/ Quiet /\ RefreshClick
  \/ \E k \in ClusterCounts : Quiet /\ ComputeRfmClick(k)
  \/ Quiet /\ HandleTransactionSubmit
  \/ Quiet /\ DeleteTransaction(TxnId(2), TRUE)
  \/ \E s \in Slots : SettleOne(s)

SpecLive ==
  Init /\ [][LiveNext]_vars /\ \A s \in Slots : WF_vars(SettleOne(s))

\* ------------------------------------------------------------------------
\* The pure functions, each applied to an input drawn at the start
\* ------------------------------------------------------------------------

\* Keys of a parameter object, and the values a key may hold.
MaxParams == 3
ParamKeys == {"start_date", "countries", "limit"}
ParamValues == {JsUndefined, JsNull, "", "2011-02-01", "France,Germany"}
ParamObjects ==
  {obj \in SeqsOf(ParamKeys \X ParamValues, 0, MaxParams) :
     \A i, j \in DOMAIN obj : i # j => obj[i][1] # obj[j][1]}

\* Line items of a transaction list: an invoice and a stock code each.
MaxLines == 3
Invoices == {"536365", "536366"}
LineItems == [Invoice : Invoices, StockCode : Range(StockCodes)]
TransactionLists == SeqsOf(LineItems, 0, MaxLines)

\* A monthly trend: the revenues of consecutive months from January 2011.
MaxMonths == 4
Revenues == {0, 100, 150, 200}
FirstMonth == 12 * 2011 + 1
AggInit ==
  \/ fn = "buildQuery" /\ arg \in ParamObjects /\ ret = [done |-> FALSE]
  \/ fn = "associations" /\ arg \in TransactionLists /\ ret = [done |-> FALSE]
  \/ fn = "forecast" /\ arg \in SeqsOf(Revenues, 0, MaxMonths)
       /\ ret = [done |-> FALSE]

\* The revenues arg as the /monthly_trend response.
TrendOf(revenues) ==
  [i \in DOMAIN revenues |->
     [year_month |-> FirstMonth + i - 1, Revenue |-> revenues[i]]]

CallBuildQuery ==
  /\ fn = "buildQuery" /\ ~ret.done
  /\ ret' = [done |-> TRUE, value |-> buildQuery(arg)]
  /\ UNCHANGED <<fn, arg, dashVars>>

CallAssociations ==
  /\ fn = "associations" /\ ~ret.done
  /\ ret' = [done |-> TRUE, value |-> Associations(arg)]
  /\ UNCHANGED <<fn, arg, dashVars>>

CallForecast ==
  /\ fn = "forecast" /\ ~ret.done
  /\ ret' = [done |-> TRUE, value |-> Forecast(TrendOf(arg))]
  /\ UNCHANGED <<fn, arg, dashVars>>

AggNext == CallBuildQuery \/ CallAssociations \/ CallForecast

InitAgg == DashInit /\ AggInit

SpecAgg == InitAgg /\ [][AggNext]_vars

\* ------------------------------------------------------------------------
\* The client-side aggregations of a transaction list, script.js:423-482,
\* 966-982
\* ------------------------------------------------------------------------

\* A number field of a record is <<n>>, or <<>> when the record has none.
\* v || 0
NumberOrZero(v) == IF v = <<>> THEN 0 ELSE v[1]

\* (t.Quantity || 0) * (t.Price || 0), prices in pence
Revenue(t) == NumberOrZero(t.Quantity) * NumberOrZero(t.Price)

\* new Date(s).getDay() of the dates the lists hold, 0 = Sunday; the host's
\* time zone is taken to be UTC.  An unparsable date gives NaN (DateParses).
GetDay(s) ==
  CASE s = "2011-01-05T09:30:00Z" -> 3
    [] s = "2011-01-09T12:00:00Z" -> 0
    [] s = "2011-03-01T10:00:00Z" -> 2

\* dayRevenue after the forEach: bucket d + 1 of the sequence is
\* dayRevenue[d].  A record with an unparsable date adds to
\* dayRevenue[NaN], which is none of the seven.
RECURSIVE DayRevenue(_)
DayRevenue(transactions) ==
  IF transactions = <<>> THEN [d \in 1..7 |-> 0]
  ELSE LET n == Len(transactions)
           t == transactions[n]
           before == DayRevenue(SubSeq(transactions, 1, n - 1))
       IN IF Truthy(t.InvoiceDate) /\ DateParses(t.InvoiceDate)
          THEN [before EXCEPT ![GetDay(t.InvoiceDate) + 1] = @ + Revenue(t)]
          ELSE before

\* Inputs: what a record may hold as date and as amounts.
InvoiceDates ==
  {JsNull, "not a date", "2011-01-05T09:30:00Z", "2011-01-09T12:00:00Z"}
Amounts ==
  {[Quantity |-> <<6>>, Price |-> <<250>>],
   [Quantity |-> <<>>, Price |-> <<250>>],
   [Quantity |-> <<2>>, Price |-> <<>>]}
DatedSales ==
  {[InvoiceDate |-> d, Quantity |-> a.Quantity, Price |-> a.Price] :
     d \in InvoiceDates, a \in Amounts}

\* --- renderCohortChart, script.js:971-982 ---

\* Calendar months a list may span, counted from January 2011.
MaxCohortMonths == 13

\* The year-month text of month i, and a date in it.
MonthKey(i) ==
  LET y == 2011 + ((i - 1) \div 12)
      m == ((i - 1) % 12) + 1
  IN ToString(y) \o "-" \o (IF m < 10 THEN "0" ELSE "") \o ToString(m)
CohortDate(i) == MonthKey(i) \o "-15T10:00:00Z"

\* t.InvoiceDate.substring(0, 7): no check that the text is a date
Substring7(s) ==
  IF s = "not a date" THEN "not a d"
  ELSE MonthKey(CHOOSE i \in 1..MaxCohortMonths : s = CohortDate(i))

\* The place of a key in the order of Array.prototype.sort() (UTF-16 code
\* units): zero-padded year-months in calendar order, digits before letters.
KeyRank(k) ==
  IF k = "not a d" THEN MaxCohortMonths + 1
  ELSE CHOOSE i \in 1..MaxCohortMonths : k = MonthKey(i)

\* keys.sort()
RECURSIVE SortKeys(_)
SortKeys(keys) ==
  IF keys = {} THEN <<>>
  ELSE LET k == CHOOSE x \in keys : \A y \in keys : KeyRank(x) <= KeyRank(y)
       IN <<k>> \o SortKeys(keys \ {k})

CohortLimit == 12

\* Object.keys(cohorts).sort().slice(0, 12)
CohortMonths_NoLimit(keys) == SortKeys(keys)
CohortMonths(keys) == Slice(SortKeys(keys), 0, CohortLimit)

\* cohorts[month]: the Set of the CustomerIDs of the records of that month
\* that have a date and a customer.
CohortOf(transactions, month) ==
  {transactions[i].CustomerID : i \in
     {k \in DOMAIN transactions :
        /\ Truthy(transactions[k].InvoiceDate)
        /\ Truthy(transactions[k].CustomerID)
        /\ Substring7(transactions[k].InvoiceDate) = month}}

CohortKeys(transactions) ==
  {Substring7(transactions[k].InvoiceDate) : k \in
     {i \in DOMAIN transactions :
        Truthy(transactions[i].InvoiceDate) /\ Truthy(transactions[i].CustomerID)}}

\* months and sizes, the x and y of the chart
Cohorts(transactions) ==
  LET months == CohortMonths(CohortKeys(transactions))
  IN [i \in DOMAIN months |->
        [month |-> months[i],
         size |-> Cardinality(CohortOf(transactions, months[i]))]]

\* Inputs: short lists of any records, and lists with one record of
\* customer c1 in each of the latest n months, latest first, followed by at
\* most one more record.
Visits ==
  [InvoiceDate : {JsNull, "not a date", CohortDate(1), CohortDate(2)},
   CustomerID : {JsNull, "c1", "c2"}]
MonthlyVisits(n) ==
  [i \in 1..n |-> [InvoiceDate |-> CohortDate(n + 1 - i), CustomerID |-> "c1"]]
VisitLists ==
  SeqsOf(Visits, 0, MaxLines)
    \cup {MonthlyVisits(n) \o tail :
            n \in CohortLimit..MaxCohortMonths, tail \in SeqsOf(Visits, 0, 1)}

\* --- fetchCategoryDistribution, script.js:470-482 ---

\* A Description is kept as the sequence of its pieces between spaces,
\* which is what split(' ') returns: <<"", "BOX">> is ' BOX', <<"">> is the
\* empty string, and <<>> stands for a record without Description.
HasDescription(t) == t.Description \notin {<<>>, <<"">>}

\* t.Description.split(' ')[0] || 'Other'
CategoryOf(t) ==
  IF Head(t.Description) = "" THEN "Other" ELSE Head(t.Description)

\* categories after the forEach, as Object.entries lists it: one
\* <<category, revenue>> per category in the order the categories first
\* appear (the words here are not integer-like keys).
RECURSIVE CategoryEntries(_)
CategoryEntries(transactions) ==
  IF transactions = <<>> THEN <<>>
  ELSE LET n == Len(transactions)
           t == transactions[n]
           before == CategoryEntries(SubSeq(transactions, 1, n - 1))
       IN IF ~HasDescription(t) THEN before
          ELSE IF \E i \in DOMAIN before : before[i][1] = CategoryOf(t)
          THEN [i \in DOMAIN before |->
                  IF before[i][1] = CategoryOf(t)
                  THEN <<before[i][1], before[i][2] + Revenue(t)>>
                  ELSE before[i]]
          ELSE Append(before, <<CategoryOf(t), Revenue(t)>>)

\* entries.sort((a, b) => b[1] - a[1]): descending by value, entries of
\* equal value keeping their order (the sort is stable).
RECURSIVE InsertByValue(_, _)
InsertByValue(sorted, e) ==
  IF sorted = <<>> THEN <<e>>
  ELSE IF Head(sorted)[2] >= e[2]
       THEN <<Head(sorted)>> \o InsertByValue(Tail(sorted), e)
       ELSE <<e>> \o sorted
RECURSIVE SortByValueDesc(_)
SortByValueDesc(entries) ==
  IF entries = <<>> THEN <<>>
  ELSE InsertByValue(SortByValueDesc(SubSeq(entries, 1, Len(entries) - 1)),
                     entries[Len(entries)])

TopLimit == 10

\* Object.entries(categories).sort(...).slice(0, 10)
TopCategories_Unsorted(transactions) ==
  Slice(CategoryEntries(transactions), 0, TopLimit)
TopCategories(transactions) ==
  Slice(SortByValueDesc(CategoryEntries(transactions)), 0, TopLimit)

\* Inputs: short lists of any records (one a return, with a negative
\* quantity), and lists of one record for each of n different first words.
MaxCategories == 11
Descriptions ==
  {<<>>, <<"", "BOX">>, <<"LAMP", "RED">>, <<"LAMP", "BLUE">>,
   <<"Other", "ITEM">>}
DescribedSales ==
  {[Description |-> d, Quantity |-> <<q>>, Price |-> <<250>>] :
     d \in Descriptions, q \in {6, -1}}
WordSales(prices) ==
  [i \in DOMAIN prices |->
     [Description |-> <<"W" \o ToString(i), "ITEM">>,
      Quantity |-> <<1>>, Price |-> <<prices[i]>>]]
DescribedLists ==
  SeqsOf(DescribedSales, 0, MaxLines)
    \cup {WordSales(prices) : prices \in SeqsOf({100, 200}, TopLimit, MaxCategories)}

ChartsInit ==
  \/ fn = "dayRevenue" /\ arg \in SeqsOf(DatedSales, 0, MaxLines)
       /\ ret = [done |-> FALSE]
  \/ fn = "cohort" /\ arg \in VisitLists /\ ret = [done |-> FALSE]
  \/ fn = "categories" /\ arg \in DescribedLists /\ ret = [done |-> FALSE]

CallDayRevenue ==
  /\ fn = "dayRevenue" /\ ~ret.done
  /\ ret' = [done |-> TRUE, value |-> DayRevenue(arg)]
  /\ UNCHANGED <<fn, arg, dashVars>>

CallCohorts ==
  /\ fn = "cohort" /\ ~ret.done
  /\ ret' = [done |-> TRUE, value |-> Cohorts(arg)]
  /\ UNCHANGED <<fn, arg, dashVars>>

CallTopCategories ==
  /\ fn = "categories" /\ ~ret.done
  /\ ret' = [done |-> TRUE, value |-> TopCategories(arg)]
  /\ UNCHANGED <<fn, arg, dashVars>>

ChartsNext == CallDayRevenue \/ CallCohorts \/ CallTopCategories

InitCharts == DashInit /\ ChartsInit

SpecCharts == InitCharts /\ [][ChartsNext]_vars

\* ------------------------------------------------------------------------
\* Properties
\* ------------------------------------------------------------------------

Started(s) == ~IsRefresh(s) /\ ops'[s].kind = "refreshAll"
Ended(s) == IsRefresh(s) /\ ops'[s].kind # "refreshAll"
ListSettles(s) ==
  /\ IsRefresh(s)
  /\ "fetchTransactionsList" \in ops[s].pending
  /\ ops'[s].kind = "refreshAll" => "fetchTransactionsList" \notin ops'[s].pending

\* C2: a refreshAll one of whose fetches failed ends with an error
\* notification, not with 'Data refreshed successfully!'.
C2_FailedBatchReportsError ==
  [][\A s \in Slots : Ended(s) /\ ops[s].failed => alerts'.type = "error"]_vars

\* C3: a run of refreshAll shows the loading indicator when it issues its
\* nine fetches, keeps it shown while one of them is pending, and clears it
\* in the step in which the last of the nine settles.
C3_LoadingSpansTheNineFetches ==
  [][\A s \in Slots :
       /\ Started(s) =>
            loadingOverlay' /\ ops'[s].pending = Range(RefreshFetches)
       /\ IsRefresh(s) /\ ops'[s].kind = "refreshAll" =>
            loadingOverlay' /\ ops'[s].pending # {}
       /\ Ended(s) =>
            Cardinality(ops[s].pending) = 1 /\ ~loadingOverlay']_vars

\* A refreshAll has run to its end although some of its fetches failed.
C3_Witness ==
  /\ Quiet
  /\ ~loadingOverlay
  /\ alerts.type = "success"
  /\ currentTransactions = <<>>
  /\ currentProducts # <<>>

\* C4: a request in flight is never cancelled: the transaction list of a
\* refreshAll leaves its pending set only by its response being stored in
\* currentTransactions and rendered, whatever currentFilters is by then.
C4_LateResponseOverwrites ==
  [][\A s \in Slots :
       ListSettles(s) =>
         /\ currentTransactions' = ServerTransactions(ops[s].filters, db)
         /\ tableRows' = RenderedTable(currentTransactions', currentPage)]_vars

\* Apply Filters for France, then Apply Filters with no country before the
\* responses arrive: everything delivered, currentFilters is the second
\* filter set and the list and table are the response for France.
C4_Witness ==
  /\ Quiet
  /\ currentFilters = << <<"start_date", JsNull>>, <<"end_date", JsNull>>,
                         <<"countries", JsNull>> >>
  /\ currentTransactions =
       ServerTransactions(<< <<"countries", "France">> >>, db)
  /\ currentTransactions # ServerTransactions(currentFilters, db)
  /\ tableRows.rows = currentTransactions

\* C5: currentPage is 1 when currentTransactions is empty and lies within
\* [1, ceil(currentTransactions.length / pageSize)] otherwise.
C5_PageWithinRange ==
  IF Len(currentTransactions) = 0 THEN currentPage = 1
  ELSE currentPage \in 1..CeilDiv(Len(currentTransactions), pageSize)

\* The parameter objects a filtered URL can be read back as: any choice of
\* the four filter keys with non-empty values.
FilterObjects ==
  {SelectSeq(<< <<"start_date", a>>, <<"end_date", b>>, <<"countries", c>>,
                <<"segment", d>> >>, LAMBDA kv : kv[2] # "") :
     a \in StartDates, b \in EndDates,
     c \in {"", "France", "France,United Kingdom"}, d \in Segments}

\* url is the URL of fetch `name` with a query string carrying key=value.
HasParam(name, url, key, value) ==
  \E obj \in FilterObjects : Get(obj, key) = value /\ FetchUrl(name, obj) = url

\* C6: the filtered requests issued by Apply Filters carry every filter
\* input the user has set: start_date, end_date, countries and segment.
C6_AllSetFiltersSent ==
  [][\A s \in Slots :
       Started(s) /\ ops'[s].caller = "applyFilters" =>
         \A name \in FilteredFetches :
           LET url == FetchUrl(name, ops'[s].filters)
           IN /\ startDate # "" => HasParam(name, url, "start_date", startDate)
              /\ endDate # "" => HasParam(name, url, "end_date", endDate)
              /\ countrySelect # <<>> =>
                   HasParam(name, url, "countries", Join(countrySelect, ","))
              /\ segmentFilter # "" =>
                   HasParam(name, url, "segment", segmentFilter)]_vars

SubmitSent(s) ==
  ops[s].kind # "handleTransactionSubmit" /\ ops'[s].kind = "handleTransactionSubmit"

\* C1: a submit sends one request, chosen by editingTransactionId at that
\* moment: POST /transactions when it is null, PUT /transactions/<id> when
\* it holds an id; a PUT never goes to anything but the held value.
C1_SubmitSelectsByEditingId ==
  [][\A s \in Slots :
       SubmitSent(s) =>
         /\ \A t \in Slots \ {s} : ops'[t] = ops[t]
         /\ editingTransactionId = JsNull =>
              ops'[s].method = "POST" /\ ops'[s].url = "/transactions"
         /\ IsTxnId(editingTransactionId) =>
              /\ ops'[s].method = "PUT"
              /\ ops'[s].url = "/transactions/" \o editingTransactionId
         /\ ops'[s].method = "PUT" =>
              ops'[s].url = "/transactions/" \o ToText(editingTransactionId)
         /\ ops'[s].method \in {"POST", "PUT"}]_vars

\* An update of transaction 1 is in flight after an earlier submit has
\* created a record.
C1_Witness ==
  /\ db \cap CreatedIds # {}
  /\ \E s \in Slots :
       /\ ops[s].kind = "handleTransactionSubmit"
       /\ ops[s].method = "PUT"
       /\ ops[s].url = "/transactions/" \o TxnId(1)

\* What the form shows of record t: each field's value ('' for a missing
\* text, the code's default for a missing number), the date as the input
\* formats it.
Shows(t) ==
  [formInvoice |-> Or(t.Invoice, ""),
   formStockCode |-> Or(t.StockCode, ""),
   formDescription |-> Or(t.Description, ""),
   formQuantity |-> NumberOr(t.Quantity, "1"),
   formPrice |-> NumberOr(t.Price, "0"),
   formCustomerID |-> Or(t.CustomerID, ""),
   formCountry |-> Or(t.Country, ""),
   formInvoiceDate |-> IF Truthy(t.InvoiceDate) /\ DateParses(t.InvoiceDate)
                       THEN ToDatetimeLocal(t.InvoiceDate) ELSE ""]

\* C8: opening the modal with the id of a record of currentTransactions
\* leaves every form field showing that record's value.
C8_EditShowsTheRecord ==
  [][/\ editingTransactionId' # editingTransactionId
     /\ IsTxnId(editingTransactionId')
     /\ FindTransaction(editingTransactionId') # 0
     => form' = Shows(Txn(FindTransaction(editingTransactionId')))]_vars

\* The keys of a parameter object whose value is neither undefined, null
\* nor the empty string, as positions.
Qualifying(params) ==
  {i \in DOMAIN params : params[i][2] \notin {JsUndefined, JsNull, ""}}

\* key=value of the positions S of params, ascending, joined by '&'.
RECURSIVE PairsInOrder(_, _)
PairsInOrder(params, S) ==
  IF S = {} THEN ""
  ELSE LET i == CHOOSE k \in S : \A j \in S : k <= j
           pair == encodeURIComponent(params[i][1]) \o "="
                     \o encodeURIComponent(params[i][2])
       IN IF S = {i} THEN pair
          ELSE pair \o "&" \o PairsInOrder(params, S \ {i})

\* C7: buildQuery returns '?' and the key=value pairs of exactly the keys
\* whose value is not undefined, null or '', in key order joined by '&', and
\* the empty string when no key qualifies.
C7_BuildQueryKeepsSetKeys ==
  fn = "buildQuery" /\ ret.done =>
    IF Qualifying(arg) = {} THEN ret.value = ""
    ELSE ret.value = "?" \o PairsInOrder(arg, Qualifying(arg))

\* buildQuery has dropped an empty and a null value and kept the key between them.
C7_Witness ==
  /\ fn = "buildQuery" /\ ret.done
  /\ arg = << <<"start_date", "">>, <<"countries", "France,Germany">>,
              <<"limit", JsNull>> >>
  /\ ret.value = "?countries=France%2CGermany"

\* The invoices of a list that hold both codes.
InvoicesWithBoth(transactions, a, b) ==
  {inv \in InvoicesOf(transactions) :
     {a, b} \subseteq Range(InvoiceItems(transactions, inv))}

DistinctWithinInvoices(transactions) ==
  \A i, j \in DOMAIN transactions :
    i # j /\ transactions[i].Invoice = transactions[j].Invoice
      => transactions[i].StockCode # transactions[j].StockCode

\* C9: when the line items of each invoice are distinct stock codes, the
\* count of a pair is the number of invoices containing both codes.
C9_PairCountedOncePerInvoice ==
  fn = "associations" /\ ret.done /\ DistinctWithinInvoices(arg) =>
    \A a, b \in Range(StockCodes) :
      a # b => ret.value[PairKey(a, b)]
                 = Cardinality(InvoicesWithBoth(arg, a, b))

\* C10: with at least 3 points the i-th projected revenue is
\* max(0, last + i * delta), delta the average of the two deltas between
\* the last 3 points.
C10_ForecastAddsAverageDelta ==
  fn = "forecast" /\ ret.done /\ Len(arg) >= 3 =>
    LET n == Len(arg)
        deltas == (arg[n - 1] - arg[n - 2]) + (arg[n] - arg[n - 1])
    IN \A i \in 1..ForecastHorizon :
         QuotEq(ret.value[i].Revenue, Quot(Max(0, 2 * arg[n] + i * deltas), 2))

RECURSIVE SumOfSeq(_)
SumOfSeq(q) == IF q = <<>> THEN 0 ELSE Head(q) + SumOfSeq(Tail(q))

\* C11: the seven day-of-week buckets add up to the sum of Quantity*Price
\* over all the transactions of the list (a missing Quantity or Price
\* counted as 0), whatever their InvoiceDate.
C11_BucketsSumToTotal ==
  fn = "dayRevenue" /\ ret.done =>
    SumOfSeq(ret.value)
      = SumOfSeq([i \in DOMAIN arg |->
                    (IF arg[i].Quantity = <<>> THEN 0 ELSE arg[i].Quantity[1])
                    * (IF arg[i].Price = <<>> THEN 0 ELSE arg[i].Price[1])])

\* The year-month keys of the records that have a date and a customer.
MonthsSeen ==
  {Substring7(arg[k].InvoiceDate) : k \in
     {i \in DOMAIN arg : /\ arg[i].InvoiceDate \notin {JsNull, JsUndefined, ""}
                         /\ arg[i].CustomerID \notin {JsNull, JsUndefined, ""}}}

\* The distinct customers of the records of a month.
CustomersIn(month) ==
  {arg[i].CustomerID : i \in
     {k \in DOMAIN arg : /\ arg[k].InvoiceDate \notin {JsNull, JsUndefined, ""}
                         /\ arg[k].CustomerID \notin {JsNull, JsUndefined, ""}
                         /\ Substring7(arg[k].InvoiceDate) = month}}

\* Each reported month is a month of the list with its number of distinct
\* customers, and at most 12 are reported.
CohortSizesRight ==
  /\ Len(ret.value) <= 12
  /\ \A i \in DOMAIN ret.value :
       /\ ret.value[i].month \in MonthsSeen
       /\ ret.value[i].size = Cardinality(CustomersIn(ret.value[i].month))

\* C12 as stated: at most 12 year-month keys with their numbers of distinct
\* customers, the reported months in ascending order of that number.
C12_CohortsAscendingBySize ==
  fn = "cohort" /\ ret.done =>
    /\ CohortSizesRight
    /\ \A i, j \in DOMAIN ret.value :
         i < j => ret.value[i].size <= ret.value[j].size

\* C12 amended: the reported months are the 12 earliest year-month keys of
\* the list (all of them when there are fewer), in ascending key order,
\* each with its number of distinct customers.
C12_CohortsAscendingByMonth ==
  fn = "cohort" /\ ret.done =>
    /\ CohortSizesRight
    /\ Len(ret.value) = IF Cardinality(MonthsSeen) < 12
                        THEN Cardinality(MonthsSeen) ELSE 12
    /\ \A i, j \in DOMAIN ret.value :
         i < j => KeyRank(ret.value[i].month) < KeyRank(ret.value[j].month)
    /\ \A k \in MonthsSeen :
         (\A i \in DOMAIN ret.value : ret.value[i].month # k)
           => \A i \in DOMAIN ret.value : KeyRank(ret.value[i].month) < KeyRank(k)

\* Thirteen months were seen, twelve are reported, and the first has more
\* customers than the second.
C12_Witness ==
  /\ fn = "cohort" /\ ret.done
  /\ Cardinality(MonthsSeen) = 13
  /\ Len(ret.value) = 12
  /\ ret.value[1].month = "2011-01"
  /\ ret.value[1].size = 2
  /\ ret.value[2].size = 1

\* The table or the pagination bar has been rendered.
Rendered == tableRows.nodata \/ pagination.page # 0

\* C13: with N records and currentPage = p the table shows the records of
\* indices [(p-1)*50, min(p*50, N)) in order and the bar ceil(N/50) pages;
\* with no record it shows the 'No transactions found' row alone.
C13_TableShowsThePage ==
  LET N == Len(currentTransactions)
      first == (currentPage - 1) * 50
      last == IF currentPage * 50 < N THEN currentPage * 50 ELSE N
  IN Rendered =>
       IF N = 0
       THEN tableRows.nodata /\ tableRows.rows = <<>>
       ELSE /\ ~tableRows.nodata
            /\ Len(tableRows.rows) = (IF last > first THEN last - first ELSE 0)
            /\ \A i \in DOMAIN tableRows.rows :
                 tableRows.rows[i] = currentTransactions[first + i]
            /\ pagination.page = currentPage
            /\ (pagination.totalPages - 1) * 50 < N
            /\ N <= pagination.totalPages * 50

\* The second page of 52 records is shown: two rows, of two pages.
C13_Witness ==
  /\ Len(currentTransactions) = 52
  /\ currentPage = 2
  /\ tableRows.rows = <<TxnId(51), TxnId(52)>>
  /\ pagination.totalPages = 2

\* The list has become empty and the table shows the no-data row.
C13_WitnessEmpty ==
  /\ Len(currentTransactions) = 0
  /\ tableRows.nodata

\* The records of the list that have a Description, and the first piece
\* of a Description.
Described == {i \in DOMAIN arg : arg[i].Description \notin {<<>>, <<"">>}}
FirstToken(i) == arg[i].Description[1]

\* Quantity*Price summed over a set of records of the list.
RECURSIVE RevenueOf(_)
RevenueOf(S) ==
  IF S = {} THEN 0
  ELSE LET i == CHOOSE k \in S : TRUE
       IN arg[i].Quantity[1] * arg[i].Price[1] + RevenueOf(S \ {i})

\* The output is at most 10 groups in non-increasing order of revenue, one
\* per label (the first token, `other` standing for an empty one), each
\* with the summed revenue of the records under that label, and no group
\* left out has more than a group put out.
TopTenOf(other) ==
  LET out == ret.value
      label(i) == IF FirstToken(i) = "" THEN other ELSE FirstToken(i)
      labels == {label(i) : i \in Described}
      sum(c) == RevenueOf({i \in Described : label(i) = c})
  IN /\ Len(out) = (IF Cardinality(labels) < 10 THEN Cardinality(labels) ELSE 10)
     /\ \A i \in DOMAIN out : out[i][1] \in labels /\ out[i][2] = sum(out[i][1])
     /\ \A i, j \in DOMAIN out : i < j => out[i][1] # out[j][1] /\ out[i][2] >= out[j][2]
     /\ \A c \in labels :
          (\A i \in DOMAIN out : out[i][1] # c)
            => \A i \in DOMAIN out : sum(c) <= out[i][2]

\* C14 as stated: the groups are the first space-delimited tokens of the
\* Descriptions.
C14_TopTenByFirstToken ==
  fn = "categories" /\ ret.done => TopTenOf("")

\* C14 amended: a Description whose first token is empty (it starts with a
\* space) is grouped under 'Other'.
C14_TopTenByFirstTokenOrOther ==
  fn = "categories" /\ ret.done =>
    TopTenOf("Other")

\* Eleven groups were formed, ten are put out, and the one left out is a
\* group of the smaller revenue.
C14_Witness ==
  /\ fn = "categories" /\ ret.done
  /\ Len(arg) = 11
  /\ arg[1].Price = <<100>>
  /\ arg[2].Price = <<200>>
  /\ Len(ret.value) = 10
  /\ ret.value[1] = <<"W2", 200>>
  /\ \A i \in DOMAIN ret.value : ret.value[i][1] # "W1"

\* A DELETE request has been issued in this step.
DeleteSent(s) ==
  /\ ops[s].kind # "deleteTransaction"
  /\ ops'[s].kind = "deleteTransaction"

\* C15: a DELETE to /transactions/<id> is issued only in a step in which
\* confirm() returned true for that id; a step in which it returned false
\* sends nothing, leaves the overlay as it was and changes none of
\* currentTransactions, currentPage and editingTransactionId.
C15_DeleteOnlyWhenConfirmed ==
  [][/\ \A s \in Slots :
          DeleteSent(s) =>
            /\ prompt'.answer
            /\ ops'[s].method = "DELETE"
            /\ ops'[s].url = "/transactions/" \o prompt'.about
     /\ prompt' # prompt /\ ~prompt'.answer =>
          /\ ops' = ops
          /\ loadingOverlay' = loadingOverlay
          /\ currentTransactions' = currentTransactions
          /\ currentPage' = currentPage
          /\ editingTransactionId' = editingTransactionId
          /\ db' = db]_vars

\* The delete of transaction 1 was declined and nothing is in flight, after
\* an earlier confirmed delete has removed transaction 2.
C15_Witness ==
  /\ prompt = [about |-> TxnId(1), answer |-> FALSE]
  /\ 2 \notin db
  /\ 1 \in db
  /\ Quiet
  /\ ~loadingOverlay

\* The response to a submit is handled in this step, and a refreshAll
\* starts in it.
SubmitSettles(s) ==
  /\ ops[s].kind = "handleTransactionSubmit"
  /\ ops'[s].kind # "handleTransactionSubmit"
RefreshStarts(s) == ops[s].kind # "refreshAll" /\ ops'[s].kind = "refreshAll"

\* C16: a submit starts a refresh if and only if the response is 2xx; then
\* the modal is closed and editingTransactionId is null; otherwise an error
\* notification is shown and the modal and editingTransactionId stay.
C16_RefreshIffSuccess ==
  [][\A s \in Slots :
       SubmitSettles(s) =>
         /\ RefreshStarts(s) <=> served'.status = "2xx"
         /\ served'.status = "2xx" =>
              ~modalActive' /\ editingTransactionId' = JsNull
         /\ served'.status # "2xx" =>
              /\ alerts'.type = "error"
              /\ modalActive' = modalActive
              /\ editingTransactionId' = editingTransactionId]_vars

\* C17: a click on the Add Transaction button leaves editingTransactionId
\* null, the form reset and the modal open, and a submit made while
\* editingTransactionId is as that click left it issues a POST to
\* /transactions.
C17_AddOpensCreateMode ==
  [][/\ AddTransactionClick =>
          /\ editingTransactionId' = JsNull
          /\ form' = EmptyForm
          /\ modalActive'
     /\ \A s \in Slots :
          SubmitSent(s) /\ editingTransactionId = ClickEvent =>
            ops'[s].method = "POST" /\ ops'[s].url = "/transactions"]_vars

\* An operation that has shown the overlay is in flight in slot s.
ShowedOverlay(s) ==
  ops[s].kind \in {"refreshAll", "fetchRFM", "handleTransactionSubmit",
                   "deleteTransaction"}

\* C18: the overlay is active whenever an operation that showed it is
\* still in flight.
C18_OverlayWhileInFlight ==
  (\E s \in Slots : ShowedOverlay(s)) => loadingOverlay

\* C19: when every request issued eventually settles, an operation that
\* showed the overlay and is in flight leads to a state with nothing in
\* flight and the overlay inactive, whatever the outcome of its requests;
\* and the overlay is inactive whenever no operation is in flight.
C19_OverlayEventuallyCleared ==
  /\ (\E s \in Slots : ShowedOverlay(s)) ~> (Quiet /\ ~loadingOverlay)
  /\ [](Quiet => ~loadingOverlay)

\* Nothing is in flight and the overlay is off after a request whose
\* response could not be parsed.
C19_Witness ==
  /\ Quiet
  /\ ~loadingOverlay
  /\ served.body = "unparsable"
  /\ alerts.type = "error"

\* C20: when the transaction modal is not active, editingTransactionId is
\* null.
C20_ClosedModalHasNoEditingId ==
  ~modalActive => editingTransactionId = JsNull

====
